---- MODULE Spec2Model ----
(***************************************************************************)
(* jsonlog2elasticsearch: a daemon that tails a JSON-lines log file and    *)
(* sends every decoded line to elasticsearch with bulk requests.           *)
(*                                                                         *)
(* The model follows jsonlog2elasticsearch/__init__.py: process(),         *)
(* commit(), chunks(), the patched Pygtail cursor and the loop of main().  *)
(* File sizes and read positions are counted in lines.                     *)
(***************************************************************************)
EXTENDS Integers, Sequences, FiniteSets, TLC

VARIABLES
    path,         \* inode the watched path names, 0 when the path is missing
    disk,         \* inode -> content of that file (sequence of lines)
    nextIno,      \* next unused inode number
    nlines,       \* number of lines written so far (line ids are 1..nlines)
    offset_file,  \* content of LOG_PATH.offset, NoFile when it does not exist
    pt,           \* the Pygtail object: open handle, its position, flags
    RUNNING,      \* module global RUNNING
    TO_SEND,      \* module global TO_SEND
    pc,           \* position of the main thread
    line,         \* local `line` of main(): the line pt.next() returned
    force,        \* argument `force` of the commit() call in progress
    ci,           \* number of chunks the commit() in progress has submitted
    ret,          \* return value of the call that completed last
    last,         \* the call that completed last ("none" while one runs)
    entry,        \* TO_SEND and number of bulk calls when the current
                  \* process()/commit() call was entered
    calls,        \* every elasticsearch.helpers.bulk call made so far
    yielded,      \* ids of the lines handed to process() by this process run
    startLines,   \* ids of the lines in the file when this process run began
    touched,      \* inodes of the files touch() created
    restarts,     \* number of times the daemon was started again
    raised,       \* the exception a call of this process run raised last
    emitted,      \* every operation process() appended to TO_SEND, in order
    utcnow        \* what datetime.datetime.utcnow() returns

vars == <<path, disk, nextIno, nlines, offset_file, pt, RUNNING, TO_SEND, pc,
          line, force, ci, ret, last, entry, calls, yielded, startLines,
          touched, restarts, raised, emitted, utcnow>>

fsVars   == <<path, disk, nextIno, nlines, offset_file>>
histVars == <<yielded, startLines, touched, restarts, raised, emitted>>

----------------------------------------------------------------------------
(* Bounds of the model *)

\* largest buffer handed to commit() on its own
MaxBuf == 1001

\* largest burst of lines read by one drain pass
MaxDrain == 1001

\* lines written while the tail cursor is explored
MaxLines == 3

\* files created by the rotation tooling while the tail cursor is explored
MaxInode == 2

\* restarts of the daemon
MaxRestarts == 1

\* largest buffer process() is tried on
MaxPending == 2

\* largest burst of lines read by the drain pass a signal interrupts
MaxShutdown == 501

(* Program constants *)

\* a threshold that is one too high: len(TO_SEND) <= 500
CommitThresholdOffByOne == 500 + 1

\* commit(): `if not(force) and len(TO_SEND) < 500`
CommitThreshold == 500

\* chunks one operation smaller: chunks(TO_SEND, 499)
ChunkSizeSmaller == 500 - 1

\* commit(): `chunks(TO_SEND, 500)`
ChunkSize == 500

SLEEP_AFTER_EACH_ITERATION == 3

None   == "None"
NoFile == <<>>     \* content of a file that does not exist

\* a cursor built without read_from_end
read_from_start == FALSE

\* main() line 170: pygtail.Pygtail(filename=LOG_PATH, read_from_end=True)
read_from_end == TRUE

----------------------------------------------------------------------------
(* Lines, documents, hooks *)

LineKinds == {"blank", "badjson", "nonobject", "object"}
TsKinds   == {"absent", "aware", "naive", "invalid"}
TrKinds   == {"identity", "modify", "none", "nondict"}

\* a datetime: calendar date, time of day, and the UTC offset in minutes
\* (east positive) of an aware one; utcnow() and UTC datetimes have offset 0
datetime(y, mo, d, h, mi, off) ==
    [y |-> y, mo |-> mo, d |-> d, h |-> h, mi |-> mi, off |-> off]

\* the "@timestamp" of the lines whose timestamp the model does not vary
SomeStamp == datetime(2023, 1, 1, 23, 30, 120)

\* the clock of the runs whose clock the model does not vary
SomeClock == datetime(2023, 1, 2, 8, 0, 0)

\* what a line of the log file can hold
LineContents ==
    { [kind |-> k, ts |-> "absent", tr |-> "identity", at |-> SomeStamp] :
          k \in {"blank", "badjson", "nonobject"} }
    \cup { [kind |-> "object", ts |-> t, tr |-> f, at |-> SomeStamp] :
               t \in TsKinds, f \in TrKinds }

ValidContent ==
    [kind |-> "object", ts |-> "absent", tr |-> "identity", at |-> SomeStamp]

MkLine(i, c) ==
    [id |-> i, kind |-> c.kind, ts |-> c.ts, tr |-> c.tr, at |-> c.at]

\* the value None where a line is expected
NoLine ==
    [id |-> 0, kind |-> None, ts |-> "absent", tr |-> "identity",
     at |-> SomeStamp]

\* json.loads(line.strip()): raises on text that is not JSON, otherwise the
\* decoded value; a dict keeps the fields of the line
json_loads(l) ==
    CASE l.kind = "badjson"   -> [raised |-> TRUE,  isdict |-> FALSE, value |-> None]
      [] l.kind = "nonobject" -> [raised |-> FALSE, isdict |-> FALSE, value |-> l.id]
      [] OTHER                -> [raised |-> FALSE, isdict |-> TRUE,
                                  value |-> [id |-> l.id, ts |-> l.ts,
                                             tr |-> l.tr, at |-> l.at,
                                             modified |-> FALSE]]

IsLeap(y) == (y % 4 = 0 /\ y % 100 # 0) \/ y % 400 = 0

DaysInMonth(y, mo) ==
    CASE mo = 2               -> IF IsLeap(y) THEN 29 ELSE 28
      [] mo \in {4, 6, 9, 11} -> 30
      [] OTHER                -> 31

\* the calendar day before and the calendar day after that of dt
PrevDay(dt) ==
    IF dt.d > 1 THEN [dt EXCEPT !.d = dt.d - 1]
    ELSE IF dt.mo > 1
      THEN [dt EXCEPT !.mo = dt.mo - 1, !.d = DaysInMonth(dt.y, dt.mo - 1)]
      ELSE [dt EXCEPT !.y = dt.y - 1, !.mo = 12, !.d = 31]

NextDay(dt) ==
    IF dt.d < DaysInMonth(dt.y, dt.mo) THEN [dt EXCEPT !.d = dt.d + 1]
    ELSE IF dt.mo < 12
      THEN [dt EXCEPT !.mo = dt.mo + 1, !.d = 1]
      ELSE [dt EXCEPT !.y = dt.y + 1, !.mo = 1, !.d = 1]

\* ref.utcoffset(), a timedelta of less than a day either way, in minutes
utcoffset(ref) == ref.off

\* ref.replace(tzinfo=pytz.utc): the same wall clock, declared to be UTC
replace_tzinfo_utc(ref) == [ref EXCEPT !.off = 0]

\* datetime - timedelta, the timedelta in minutes
datetime_sub(dt, minutes) ==
    LET t   == dt.h * 60 + dt.mi - minutes
        day == IF t < 0 THEN PrevDay(dt)
               ELSE IF t >= 24 * 60 THEN NextDay(dt) ELSE dt
        m   == t % (24 * 60)
    IN [day EXCEPT !.h = m \div 60, !.mi = m % 60]

Digit(k) == <<"0", "1", "2", "3", "4", "5", "6", "7", "8", "9">>[k + 1]

\* n in decimal, zero-padded to w characters
Digits(n, w) == [i \in 1..w |-> Digit((n \div (10 ^ (w - i))) % 10)]

\* dt.strftime(format): the format is a sequence of directives and literal
\* pieces, the result the sequence of the pieces and characters it expands to
RECURSIVE strftime(_, _)
strftime(dt, format) ==
    IF format = <<>> THEN <<>>
    ELSE LET t == Head(format)
             piece == CASE t = "%Y" -> Digits(dt.y, 4)
                        [] t = "%m" -> Digits(dt.mo, 2)
                        [] t = "%d" -> Digits(dt.d, 2)
                        [] t = "%H" -> Digits(dt.h, 2)
                        [] OTHER    -> <<t>>
         IN piece \o strftime(dt, Tail(format))

\* the command line argument ES_INDEX
ES_INDEX == <<"logs-", "%Y", ".", "%m", ".", "%d">>

\* default_index_func formatting the wall clock of "@timestamp" as it is
\* written, without the conversion to UTC
default_index_func_local(index_const_value, d) ==
    CASE d.ts = "absent" ->
           [raised |-> FALSE, value |-> strftime(utcnow, index_const_value)]
      [] d.ts = "aware"  ->
           [raised |-> FALSE,
            value |-> strftime(replace_tzinfo_utc(d.at), index_const_value)]
      [] OTHER           -> [raised |-> TRUE,  value |-> <<>>]

\* default_index_func(ES_INDEX, dict_object): the bucket of "@timestamp" when
\* the field is there, else of utcnow(); dateutil raises on a value it cannot
\* parse and `datetime - None` raises for a timestamp without UTC offset
default_index_func(index_const_value, d) ==
    CASE d.ts = "absent" ->
           [raised |-> FALSE, value |-> strftime(utcnow, index_const_value)]
      [] d.ts = "aware"  ->
           [raised |-> FALSE,
            value |-> strftime(datetime_sub(replace_tzinfo_utc(d.at),
                                            utcoffset(d.at)),
                               index_const_value)]
      [] OTHER           -> [raised |-> TRUE,  value |-> <<>>]

\* functools.partial(default_index_func, args.ES_INDEX)
index_func(d) == default_index_func(ES_INDEX, d)

no_transform(d) == d

\* the transform hook: the identity by default, or a user function that
\* returns another dict, None, or something that is not a dict
transform_func(d) ==
    CASE d.tr = "identity" -> [isnone |-> FALSE, isdict |-> TRUE,
                               value |-> no_transform(d)]
      [] d.tr = "modify"   -> [isnone |-> FALSE, isdict |-> TRUE,
                               value |-> [d EXCEPT !.ts = "absent", !.modified = TRUE]]
      [] d.tr = "none"     -> [isnone |-> TRUE,  isdict |-> FALSE, value |-> None]
      [] OTHER             -> [isnone |-> FALSE, isdict |-> FALSE, value |-> "nondict"]

MkOp(index, source) ==
    [_op_type |-> "index", _index |-> index, _type |-> "_doc", _source |-> source]

\* process() calling the index function after the transform, on the
\* transformed document
processIndexAfterTransform(l, buf) ==
    IF l.kind = None THEN [ret |-> FALSE, raised |-> FALSE, buf |-> buf]
    ELSE IF l.kind = "blank" THEN [ret |-> FALSE, raised |-> FALSE, buf |-> buf]
    ELSE LET decoded == json_loads(l) IN
      IF decoded.raised THEN [ret |-> FALSE, raised |-> FALSE, buf |-> buf]
      ELSE IF ~decoded.isdict THEN [ret |-> FALSE, raised |-> FALSE, buf |-> buf]
      ELSE LET transformed == transform_func(decoded.value) IN
        IF transformed.isnone
          THEN [ret |-> FALSE, raised |-> FALSE, buf |-> buf]
        ELSE IF ~transformed.isdict
          THEN [ret |-> FALSE, raised |-> FALSE, buf |-> buf]
        ELSE LET index == index_func(transformed.value) IN
          IF index.raised THEN [ret |-> FALSE, raised |-> TRUE, buf |-> buf]
          ELSE [ret |-> TRUE, raised |-> FALSE,
                buf |-> Append(buf, MkOp(index.value, transformed.value))]

\* process() appending the operation before it looks at what the transform
\* returned
processAppendsFirst(l, buf) ==
    IF l.kind = None THEN [ret |-> FALSE, raised |-> FALSE, buf |-> buf]
    ELSE IF l.kind = "blank" THEN [ret |-> FALSE, raised |-> FALSE, buf |-> buf]
    ELSE LET decoded == json_loads(l) IN
      IF decoded.raised THEN [ret |-> FALSE, raised |-> FALSE, buf |-> buf]
      ELSE IF ~decoded.isdict THEN [ret |-> FALSE, raised |-> FALSE, buf |-> buf]
      ELSE LET index == index_func(decoded.value) IN
        IF index.raised THEN [ret |-> FALSE, raised |-> TRUE, buf |-> buf]
        ELSE LET transformed == transform_func(decoded.value)
                 appended == Append(buf, MkOp(index.value, transformed.value))
             IN
          IF transformed.isnone
            THEN [ret |-> FALSE, raised |-> FALSE, buf |-> buf]
          ELSE IF ~transformed.isdict
            THEN [ret |-> FALSE, raised |-> FALSE, buf |-> appended]
          ELSE [ret |-> TRUE, raised |-> FALSE, buf |-> appended]

\* process(line, transform_func, index_func) on buffer buf: what it returns,
\* whether it raised, and the buffer afterwards
process(l, buf) ==
    IF l.kind = None THEN [ret |-> FALSE, raised |-> FALSE, buf |-> buf]
    ELSE IF l.kind = "blank" THEN [ret |-> FALSE, raised |-> FALSE, buf |-> buf]
    ELSE LET decoded == json_loads(l) IN
      IF decoded.raised THEN [ret |-> FALSE, raised |-> FALSE, buf |-> buf]
      ELSE IF ~decoded.isdict THEN [ret |-> FALSE, raised |-> FALSE, buf |-> buf]
      ELSE LET index == index_func(decoded.value) IN
        IF index.raised THEN [ret |-> FALSE, raised |-> TRUE, buf |-> buf]
        ELSE LET transformed == transform_func(decoded.value) IN
          IF transformed.isnone
            THEN [ret |-> FALSE, raised |-> FALSE, buf |-> buf]
          ELSE IF ~transformed.isdict
            THEN [ret |-> FALSE, raised |-> FALSE, buf |-> buf]
          ELSE [ret |-> TRUE, raised |-> FALSE,
                buf |-> Append(buf, MkOp(index.value, transformed.value))]

----------------------------------------------------------------------------
(* chunks(l, n): l[0:n], l[n:2n], ... *)

Min(a, b) == IF a < b THEN a ELSE b

\* a range that stops before a last, shorter slice
NChunksFloor(l, n) == Len(l) \div n

\* the number of slices range(0, len(l), n) gives
NChunks(l, n) == (Len(l) + n - 1) \div n

\* a slice that stops one item short: l[i:i + n - 1]
ChunkShort(l, n, k) == SubSeq(l, (k - 1) * n + 1, Min(k * n, Len(l)) - 1)

\* the k-th chunk that chunks(l, n) yields
Chunk(l, n, k) == SubSeq(l, (k - 1) * n + 1, Min(k * n, Len(l)))

chunks(l, n) == [k \in 1..NChunks(l, n) |-> Chunk(l, n, k)]

----------------------------------------------------------------------------
(* The tail cursor: pygtail.Pygtail with _is_new_file and                  *)
(* _update_offset_file replaced by the patched functions                    *)

\* a Pygtail object as its constructor leaves it: no handle yet
NewPygtail == [fh |-> 0, pos |-> 0, offset |-> 0, rotated_logfile |-> FALSE]

\* Pygtail._filehandle: the open handle, opening the path when there is
\* none; a fresh handle is positioned at the end of the file when
\* read_from_end is set and no offset file exists, else at _offset
filehandle(p) ==
    IF p.fh # 0 THEN [raised |-> FALSE, pt |-> p]
    ELSE IF path = 0 THEN [raised |-> TRUE, pt |-> p]
    ELSE [raised |-> FALSE,
          pt |-> [p EXCEPT !.fh = path,
                           !.pos = IF read_from_end /\ offset_file = NoFile
                                   THEN Len(disk[path]) ELSE p.offset]]

\* Pygtail._get_next_line: readline() on the handle
get_next_line(p) ==
    LET h == filehandle(p) IN
    IF h.raised THEN [out |-> "FileNotFoundError", pt |-> p, line |-> NoLine]
    ELSE IF h.pt.pos < Len(disk[h.pt.fh])
      THEN [out |-> "line", pt |-> [h.pt EXCEPT !.pos = @ + 1],
            line |-> disk[h.pt.fh][h.pt.pos + 1]]
      ELSE [out |-> "StopIteration", pt |-> h.pt, line |-> NoLine]

\* a rotation test that does not compare the position with the size of the
\* handle: a different inode at the path is enough
is_new_file_any_position(p) ==
    LET size1  == p.pos
        size2  == Len(disk[p.fh])
        inode1 == p.fh
        inode2 == path
    IN  p.rotated_logfile \/ inode1 # inode2
            \/ (inode1 = inode2 /\ size1 > size2)

\* patched_is_new_file(self), called with an open handle and an existing path
patched_is_new_file(p) ==
    LET size1  == p.pos
        size2  == Len(disk[p.fh])
        inode1 == p.fh
        inode2 == path
    IN  p.rotated_logfile \/ (size1 = size2 /\ inode1 # inode2)
            \/ (inode1 = inode2 /\ size1 > size2)

\* the library's _update_offset_file: writes the inode and the offset
update_offset_file_writes(f, p) == <<path, p.pos>>

\* patched_update_offset_file(self) on the offset file f: writes nothing
patched_update_offset_file(f, p) == f

\* Pygtail.next: the next line, StopIteration at the end of the data, or
\* FileNotFoundError from open() or from os.stat() in patched_is_new_file
pt_next(p) ==
    LET r == get_next_line(p) IN
    IF r.out # "StopIteration" THEN r
    ELSE IF path = 0 THEN [out |-> "FileNotFoundError", pt |-> r.pt, line |-> NoLine]
    ELSE IF patched_is_new_file(r.pt)
      THEN get_next_line([r.pt EXCEPT !.rotated_logfile = FALSE,
                                      !.fh = 0, !.offset = 0])
      ELSE r

----------------------------------------------------------------------------
(* commit(es, force) *)

\* where main() continues after commit(es) and after commit(es, True)
AfterCommit(f) == IF f THEN "sleep" ELSE "read"

\* the success counts elasticsearch.helpers.bulk may report for a chunk
BulkResults(chunk) == {Len(chunk), Len(chunk) - 1}

\* commit() taking a buffer of one operation for an empty one
CommitEnterSkipsSingle ==
    /\ pc = "commit"
    /\ entry' = [buf |-> TO_SEND, ncalls |-> Len(calls)]
    /\ IF ~force /\ Len(TO_SEND) < CommitThreshold
         THEN ret' = FALSE /\ last' = "commit" /\ pc' = AfterCommit(force)
         ELSE IF Len(TO_SEND) <= 1
           THEN ret' = FALSE /\ last' = "commit" /\ pc' = AfterCommit(force)
           ELSE ret' = ret /\ last' = "none" /\ pc' = "bulk"
    /\ ci' = 0
    /\ UNCHANGED <<fsVars, pt, RUNNING, TO_SEND, line, force, calls, histVars>>
    /\ UNCHANGED utcnow

\* commit() testing `force` where the code tests `not force`
CommitEnterForceInverted ==
    /\ pc = "commit"
    /\ entry' = [buf |-> TO_SEND, ncalls |-> Len(calls)]
    /\ IF force /\ Len(TO_SEND) < CommitThreshold
         THEN ret' = FALSE /\ last' = "commit" /\ pc' = AfterCommit(force)
         ELSE IF Len(TO_SEND) = 0
           THEN ret' = FALSE /\ last' = "commit" /\ pc' = AfterCommit(force)
           ELSE ret' = ret /\ last' = "none" /\ pc' = "bulk"
    /\ ci' = 0
    /\ UNCHANGED <<fsVars, pt, RUNNING, TO_SEND, line, force, calls, histVars>>
    /\ UNCHANGED utcnow

\* commit() applying its threshold test to a forced call as well
CommitEnterThresholdAlways ==
    /\ pc = "commit"
    /\ entry' = [buf |-> TO_SEND, ncalls |-> Len(calls)]
    /\ IF Len(TO_SEND) < CommitThreshold
         THEN ret' = FALSE /\ last' = "commit" /\ pc' = AfterCommit(force)
         ELSE IF Len(TO_SEND) = 0
           THEN ret' = FALSE /\ last' = "commit" /\ pc' = AfterCommit(force)
           ELSE ret' = ret /\ last' = "none" /\ pc' = "bulk"
    /\ ci' = 0
    /\ UNCHANGED <<fsVars, pt, RUNNING, TO_SEND, line, force, calls, histVars>>
    /\ UNCHANGED utcnow

\* commit(): the two early returns, else the start of the loop over chunks
CommitEnter ==
    /\ pc = "commit"
    /\ entry' = [buf |-> TO_SEND, ncalls |-> Len(calls)]
    /\ IF ~force /\ Len(TO_SEND) < CommitThreshold
         THEN ret' = FALSE /\ last' = "commit" /\ pc' = AfterCommit(force)
         ELSE IF Len(TO_SEND) = 0
           THEN ret' = FALSE /\ last' = "commit" /\ pc' = AfterCommit(force)
           ELSE ret' = ret /\ last' = "none" /\ pc' = "bulk"
    /\ ci' = 0
    /\ UNCHANGED <<fsVars, pt, RUNNING, TO_SEND, line, force, calls, histVars>>
    /\ UNCHANGED utcnow

\* commit(): one turn of `for chunk in chunks(TO_SEND, 500)`; a partial
\* failure (res[0] != len(chunk)) is logged and the loop goes on
Bulk ==
    /\ pc = "bulk"
    /\ ci < NChunks(TO_SEND, ChunkSize)
    /\ LET chunk == Chunk(TO_SEND, ChunkSize, ci + 1) IN
         \E ok \in BulkResults(chunk) :
             calls' = Append(calls, [chunk |-> chunk, ok |-> ok,
                                     forced |-> force])
    /\ ci' = ci + 1
    /\ UNCHANGED <<fsVars, pt, RUNNING, TO_SEND, pc, line, force, ret, last,
                   entry, histVars>>
    /\ UNCHANGED utcnow

\* a commit() that catches the transport failure and goes on with the next
\* chunk
BulkRaiseSwallowed ==
    /\ pc = "bulk"
    /\ ci < NChunks(TO_SEND, ChunkSize)
    /\ ci' = ci + 1
    /\ raised' = "TransportError"
    /\ UNCHANGED <<fsVars, pt, RUNNING, TO_SEND, pc, line, force, ret, last,
                   entry, calls, yielded, startLines, touched, restarts,
                   emitted>>
    /\ UNCHANGED utcnow

\* commit(): a bulk call raises (transport failure); nothing catches it
BulkRaise ==
    /\ pc = "bulk"
    /\ ci < NChunks(TO_SEND, ChunkSize)
    /\ pc' = "crashed"
    /\ raised' = "TransportError"
    /\ UNCHANGED <<fsVars, pt, RUNNING, TO_SEND, line, force, ci, ret, last,
                   entry, calls, yielded, startLines, touched, restarts,
                   emitted>>
    /\ UNCHANGED utcnow

\* commit() returning True without `TO_SEND = []`
CommitKeepsBuffer ==
    /\ pc = "bulk"
    /\ ci = NChunks(TO_SEND, ChunkSize)
    /\ ret' = TRUE
    /\ last' = "commit"
    /\ pc' = AfterCommit(force)
    /\ UNCHANGED <<fsVars, pt, RUNNING, TO_SEND, line, force, ci, entry, calls,
                   histVars>>
    /\ UNCHANGED utcnow

\* commit(): TO_SEND = [] and return True once the chunks are exhausted
CommitClear ==
    /\ pc = "bulk"
    /\ ci = NChunks(TO_SEND, ChunkSize)
    /\ TO_SEND' = <<>>
    /\ ret' = TRUE
    /\ last' = "commit"
    /\ pc' = AfterCommit(force)
    /\ UNCHANGED <<fsVars, pt, RUNNING, line, force, ci, entry, calls, histVars>>
    /\ UNCHANGED utcnow

----------------------------------------------------------------------------
(* main() *)

\* the ids of the lines of a file content
Ids(content) == { content[i].id : i \in 1..Len(content) }

\* a touch() that creates nothing
TouchNothing == UNCHANGED <<path, nextIno, touched, disk, nlines>>

\* touch(filepath): creates an empty file when the path is missing
Touch ==
    /\ path' = IF path = 0 THEN nextIno ELSE path
    /\ nextIno' = IF path = 0 THEN nextIno + 1 ELSE nextIno
    /\ touched' = IF path = 0 THEN touched \cup {nextIno} ELSE touched
    /\ UNCHANGED <<disk, nlines>>

\* main() up to the loop: touch the file when it is missing, build the
\* Pygtail object, install the signal handler
Start ==
    /\ pc = "start"
    /\ Touch
    /\ pt' = NewPygtail
    /\ startLines' = IF path = 0 THEN {} ELSE Ids(disk[path])
    /\ pc' = "loop"
    /\ UNCHANGED <<offset_file, RUNNING, TO_SEND, line, force, ci, ret, last,
                   entry, calls, yielded, restarts, raised, emitted>>
    /\ UNCHANGED utcnow

\* a handler that ends the process itself instead of leaving that to the
\* loop test
SignalExits ==
    /\ pc \notin {"start", "exited", "crashed"}
    /\ RUNNING
    /\ RUNNING' = FALSE
    /\ pc' = "exited"
    /\ UNCHANGED <<fsVars, pt, TO_SEND, line, force, ci, ret, last, entry,
                   calls, histVars>>
    /\ UNCHANGED utcnow

\* signal_handler(signum, frame), once main() has installed it
Signal ==
    /\ pc \notin {"start", "exited", "crashed"}
    /\ RUNNING
    /\ RUNNING' = FALSE
    /\ UNCHANGED <<fsVars, pt, TO_SEND, pc, line, force, ci, ret, last, entry,
                   calls, histVars>>
    /\ UNCHANGED utcnow

\* a loop that never looks at the flag: `while True:`
LoopCheckForever ==
    /\ pc = "loop"
    /\ pc' = "read"
    /\ UNCHANGED <<fsVars, pt, RUNNING, TO_SEND, line, force, ci, ret, last,
                   entry, calls, histVars>>
    /\ UNCHANGED utcnow

\* `while RUNNING:`
LoopCheck ==
    /\ pc = "loop"
    /\ pc' = IF RUNNING THEN "read" ELSE "exited"
    /\ UNCHANGED <<fsVars, pt, RUNNING, TO_SEND, line, force, ci, ret, last,
                   entry, calls, histVars>>
    /\ UNCHANGED utcnow

\* `line = pt.next()` and its three outcomes: a line goes to process(),
\* StopIteration ends the drain, FileNotFoundError touches the file and
\* ends the drain; the drain is followed by commit(es, True)
Read ==
    /\ pc = "read"
    /\ LET r == pt_next(pt) IN
         /\ pt' = r.pt
         /\ last' = "next"
         /\ CASE r.out = "line" ->
                   /\ line' = r.line
                   /\ yielded' = Append(yielded, r.line.id)
                   /\ pc' = "process"
                   /\ UNCHANGED <<fsVars, force, touched>>
              [] r.out = "StopIteration" ->
                   /\ offset_file' = patched_update_offset_file(offset_file, r.pt)
                   /\ pc' = "commit"
                   /\ force' = TRUE
                   /\ UNCHANGED <<path, disk, nextIno, nlines, line, yielded,
                                  touched>>
              [] r.out = "FileNotFoundError" ->
                   /\ Touch
                   /\ pc' = "commit"
                   /\ force' = TRUE
                   /\ UNCHANGED <<offset_file, line, yielded>>
    /\ UNCHANGED <<RUNNING, TO_SEND, ci, ret, entry, calls, startLines, restarts,
                   raised, emitted>>
    /\ UNCHANGED utcnow

\* the inner loop going back to pt.next() without calling commit(es)
ProcessNoCommit ==
    /\ pc = "process"
    /\ LET r == process(line, TO_SEND) IN
         /\ TO_SEND' = r.buf
         /\ ret' = r.ret
         /\ emitted' = IF r.ret THEN Append(emitted, r.buf[Len(r.buf)])
                                 ELSE emitted
         /\ IF r.raised
              THEN /\ last' = "none" /\ pc' = "crashed" /\ force' = force
                   /\ raised' = "ProcessError"
              ELSE /\ last' = "process"
                   /\ pc' = "read"
                   /\ force' = FALSE
                   /\ raised' = raised
    /\ entry' = [buf |-> TO_SEND, ncalls |-> Len(calls)]
    /\ UNCHANGED <<fsVars, pt, RUNNING, line, ci, calls, yielded, startLines,
                   touched, restarts>>
    /\ UNCHANGED utcnow

\* `if process(line, transform_func, index_func): commit(es)`; an exception
\* raised inside process() is caught nowhere
Process ==
    /\ pc = "process"
    /\ LET r == process(line, TO_SEND) IN
         /\ TO_SEND' = r.buf
         /\ ret' = r.ret
         /\ emitted' = IF r.ret THEN Append(emitted, r.buf[Len(r.buf)])
                                 ELSE emitted
         /\ IF r.raised
              THEN /\ last' = "none" /\ pc' = "crashed" /\ force' = force
                   /\ raised' = "ProcessError"
              ELSE /\ last' = "process"
                   /\ pc' = IF r.ret THEN "commit" ELSE "read"
                   /\ force' = FALSE
                   /\ raised' = raised
    /\ entry' = [buf |-> TO_SEND, ncalls |-> Len(calls)]
    /\ UNCHANGED <<fsVars, pt, RUNNING, line, ci, calls, yielded, startLines,
                   touched, restarts>>
    /\ UNCHANGED utcnow

\* time.sleep(SLEEP_AFTER_EACH_ITERATION)
Sleep ==
    /\ pc = "sleep"
    /\ pc' = "loop"
    /\ UNCHANGED <<fsVars, pt, RUNNING, TO_SEND, line, force, ci, ret, last,
                   entry, calls, histVars>>
    /\ UNCHANGED utcnow

\* the daemon is started again after it exited or crashed; nothing of the
\* previous run is kept but the files
Restart ==
    /\ pc \in {"exited", "crashed"}
    /\ restarts < MaxRestarts
    /\ restarts' = restarts + 1
    /\ pc' = "start"
    /\ pt' = NewPygtail
    /\ RUNNING' = TRUE
    /\ TO_SEND' = <<>>
    /\ line' = NoLine
    /\ force' = FALSE
    /\ ci' = 0
    /\ ret' = FALSE
    /\ last' = "none"
    /\ entry' = [buf |-> <<>>, ncalls |-> 0]
    /\ calls' = <<>>
    /\ yielded' = <<>>
    /\ startLines' = {}
    /\ raised' = "none"
    /\ emitted' = <<>>
    /\ UNCHANGED <<fsVars, touched>>
    /\ UNCHANGED utcnow

----------------------------------------------------------------------------
(* The writer of the log file and the rotation tooling *)

\* a line with content c is appended to the file the path names
AppendLine(c) ==
    /\ path # 0
    /\ nlines < MaxLines
    /\ nlines' = nlines + 1
    /\ disk' = [disk EXCEPT ![path] = Append(@, MkLine(nlines + 1, c))]
    /\ UNCHANGED <<path, nextIno, offset_file, pt, RUNNING, TO_SEND, pc, line,
                   force, ci, ret, last, entry, calls, histVars>>
    /\ UNCHANGED utcnow

\* the file is renamed away and a new, empty file takes the path
Rotate ==
    /\ path # 0
    /\ nextIno <= MaxInode
    /\ path' = nextIno
    /\ nextIno' = nextIno + 1
    /\ UNCHANGED <<disk, nlines, offset_file, pt, RUNNING, TO_SEND, pc, line,
                   force, ci, ret, last, entry, calls, histVars>>
    /\ UNCHANGED utcnow

\* the file is truncated in place to its first k lines
Truncate(k) ==
    /\ path # 0
    /\ k < Len(disk[path])
    /\ disk' = [disk EXCEPT ![path] = SubSeq(@, 1, k)]
    /\ UNCHANGED <<path, nextIno, nlines, offset_file, pt, RUNNING, TO_SEND, pc,
                   line, force, ci, ret, last, entry, calls, histVars>>
    /\ UNCHANGED utcnow

\* the file is renamed away or removed and the path is left missing
Delete ==
    /\ path # 0
    /\ nextIno <= MaxInode
    /\ path' = 0
    /\ UNCHANGED <<disk, nextIno, nlines, offset_file, pt, RUNNING, TO_SEND, pc,
                   line, force, ci, ret, last, entry, calls, histVars>>
    /\ UNCHANGED utcnow

----------------------------------------------------------------------------
(* The daemon next to a writer and a rotation tool *)

\* the lines written while the tail cursor is explored
TailContents ==
    { c \in LineContents : /\ c.kind = "object"
                           /\ c.ts = "absent"
                           /\ c.tr = "identity" }

Init ==
    /\ path = 1
    /\ disk = [i \in 1..(MaxInode + 1) |-> <<>>]
    /\ nextIno = 2
    /\ utcnow = SomeClock
    /\ nlines = 0
    /\ offset_file = NoFile
    /\ pt = NewPygtail
    /\ RUNNING = TRUE
    /\ TO_SEND = <<>>
    /\ pc = "start"
    /\ emitted = <<>>
    /\ line = NoLine
    /\ force = FALSE
    /\ ci = 0
    /\ ret = FALSE
    /\ last = "none"
    /\ entry = [buf |-> <<>>, ncalls |-> 0]
    /\ calls = <<>>
    /\ yielded = <<>>
    /\ startLines = {}
    /\ touched = {}
    /\ restarts = 0
    /\ raised = "none"

Daemon ==
    \/ Start \/ LoopCheck \/ Read \/ Process \/ CommitEnter \/ Bulk
    \/ BulkRaise \/ CommitClear \/ Sleep \/ Restart

Environment ==
    \/ \E c \in TailContents : AppendLine(c)
    \/ \E k \in 0..MaxLines : Truncate(k)
    \/ Rotate \/ Delete \/ Signal

Next == Daemon \/ Environment

Spec == Init /\ [][Next]_vars

----------------------------------------------------------------------------
(* commit() on its own, on every buffer of up to MaxBuf operations *)

\* the line with id i of a file of valid lines, and the operation process()
\* emits for it
ValidLine(i) == MkLine(i, ValidContent)
ValidOp(i)   == process(ValidLine(i), <<>>).buf[1]

\* everything but the buffer, the position and the commit argument
Idle ==
    /\ path = 1
    /\ nextIno = 2
    /\ utcnow = SomeClock
    /\ offset_file = NoFile
    /\ RUNNING = TRUE
    /\ ci = 0
    /\ ret = FALSE
    /\ last = "none"
    /\ entry = [buf |-> <<>>, ncalls |-> 0]
    /\ calls = <<>>
    /\ yielded = <<>>
    /\ startLines = {}
    /\ touched = {}
    /\ restarts = 0
    /\ raised = "none"

\* the buffer sizes commit() is tried on: the small ones, those around the
\* multiples of the chunk size, a spread in between, and the largest
CommitSizes ==
    { n \in 0..MaxBuf :
          \/ n <= 3 \/ n = MaxBuf
          \/ n % ChunkSize \in {0, 1, ChunkSize - 1}
          \/ n % 50 = 0 }

InitCommit ==
    /\ Idle
    /\ disk = [i \in 1..(MaxInode + 1) |-> <<>>]
    /\ nlines = 0
    /\ pt = [NewPygtail EXCEPT !.fh = 1]
    /\ line = NoLine
    /\ pc = "commit"
    /\ force \in BOOLEAN
    /\ \E n \in CommitSizes : TO_SEND = [i \in 1..n |-> ValidOp(i)]
    /\ emitted = TO_SEND

NextCommit == CommitEnter \/ Bulk \/ BulkRaise \/ CommitClear

SpecCommit == InitCommit /\ [][NextCommit]_vars

----------------------------------------------------------------------------
(* One drain pass over a burst of valid lines: the daemon started on an    *)
(* empty file, found nothing, slept, and n lines were written meanwhile    *)

DrainSizes ==
    { n \in 0..MaxDrain :
          n <= 1 \/ n = 601 \/ n % ChunkSize \in {0, 1, ChunkSize - 1} }

InitDrain ==
    /\ Idle
    /\ \E n \in DrainSizes :
          /\ disk = [i \in 1..(MaxInode + 1) |->
                        IF i = 1 THEN [j \in 1..n |-> ValidLine(j)] ELSE <<>>]
          /\ nlines = n
    /\ pt = [NewPygtail EXCEPT !.fh = 1]
    /\ line = NoLine
    /\ pc = "read"
    /\ force = TRUE
    /\ TO_SEND = <<>>
    /\ emitted = <<>>

NextDrain ==
    \/ Read \/ Process \/ CommitEnter \/ Bulk \/ CommitClear \/ Sleep
    \/ LoopCheck

SpecDrain == InitDrain /\ [][NextDrain]_vars

----------------------------------------------------------------------------
(* process() on its own, on every kind of line *)

InitProcess ==
    /\ Idle
    /\ disk = [i \in 1..(MaxInode + 1) |-> <<>>]
    /\ nlines = 0
    /\ pt = [NewPygtail EXCEPT !.fh = 1]
    /\ \E n \in 0..MaxPending :
          /\ TO_SEND = [i \in 1..n |-> ValidOp(i)]
          /\ line \in { MkLine(n + 1, c) : c \in LineContents } \cup {NoLine}
    /\ pc = "process"
    /\ force = FALSE
    /\ emitted = TO_SEND

NextProcess == Process \/ CommitEnter

SpecProcess == InitProcess /\ [][NextProcess]_vars

----------------------------------------------------------------------------
(* process() on one line whose "@timestamp" and clock vary: the default    *)
(* index function on dates around the ends of months and years             *)

IndexDates ==
    { <<2022, 12, 31>>, <<2023, 1, 1>>, <<2023, 2, 28>>, <<2023, 3, 1>>,
      <<2023, 12, 31>>, <<2024, 2, 28>>, <<2024, 2, 29>>, <<2024, 3, 1>> }

IndexTimes == { <<0, 0>>, <<1, 0>>, <<12, 0>>, <<23, 30>> }

\* UTC offsets, in minutes: -12:00, -01:30, 00:00, +02:00, +05:30, +14:00
IndexOffsets == { 0 - 720, 0 - 90, 0, 120, 330, 840 }

Stamps ==
    { datetime(dd[1], dd[2], dd[3], t[1], t[2], o) :
          dd \in IndexDates, t \in IndexTimes, o \in IndexOffsets }

Clocks ==
    { datetime(dd[1], dd[2], dd[3], t[1], t[2], 0) :
          dd \in IndexDates, t \in IndexTimes }

InitIndex ==
    /\ path = 1
    /\ nextIno = 2
    /\ offset_file = NoFile
    /\ RUNNING = TRUE
    /\ ci = 0
    /\ ret = FALSE
    /\ last = "none"
    /\ entry = [buf |-> <<>>, ncalls |-> 0]
    /\ calls = <<>>
    /\ yielded = <<>>
    /\ startLines = {}
    /\ touched = {}
    /\ restarts = 0
    /\ raised = "none"
    /\ disk = [i \in 1..(MaxInode + 1) |-> <<>>]
    /\ nlines = 1
    /\ pt = [NewPygtail EXCEPT !.fh = 1]
    /\ pc = "process"
    /\ force = FALSE
    /\ TO_SEND = <<>>
    /\ emitted = <<>>
    /\ \E f \in {"identity", "modify"} :
         \/ /\ utcnow = SomeClock
            /\ \E s \in Stamps :
                 line = MkLine(1, [kind |-> "object", ts |-> "aware",
                                   tr |-> f, at |-> s])
         \/ /\ utcnow \in Clocks
            /\ line = MkLine(1, [kind |-> "object", ts |-> "absent",
                                 tr |-> f, at |-> SomeStamp])

NextIndex == Process \/ CommitEnter

SpecIndex == InitIndex /\ [][NextIndex]_vars

----------------------------------------------------------------------------
(* commit() on a buffer of any size, followed by the run loop reading      *)
(* MaxPending more lines: a commit and the commits that come after it      *)

FlushSizes ==
    { n \in 1..MaxBuf : n = 1 \/ n % ChunkSize \in {0, 1, ChunkSize - 1} }

InitFlush ==
    /\ Idle
    /\ \E n \in FlushSizes :
          /\ TO_SEND = [i \in 1..n |-> ValidOp(i)]
          /\ disk = [i \in 1..(MaxInode + 1) |->
                        IF i = 1 THEN [j \in 1..MaxPending |-> ValidLine(n + j)]
                                 ELSE <<>>]
          /\ nlines = n + MaxPending
    /\ pt = [NewPygtail EXCEPT !.fh = 1]
    /\ line = NoLine
    /\ pc = "commit"
    /\ force \in BOOLEAN
    /\ emitted = TO_SEND

NextFlush ==
    \/ CommitEnter \/ Bulk \/ BulkRaise \/ CommitClear \/ Sleep \/ LoopCheck
    \/ Read \/ Process

SpecFlush == InitFlush /\ [][NextFlush]_vars

----------------------------------------------------------------------------
(* The commits of SpecFlush with the termination signal arriving at any    *)
(* point: before a commit, between two of its chunks, in the sleep         *)

NextInterrupt == NextFlush \/ Signal

SpecInterrupt == InitFlush /\ [][NextInterrupt]_vars

----------------------------------------------------------------------------
(* A drain pass during which the termination signal may arrive: the file   *)
(* is finite, so the drain reaches the end of the stream, every bulk call  *)
(* returns, and the main thread keeps running                              *)

ShutdownSizes ==
    { n \in 0..MaxShutdown : n <= 1 \/ n % ChunkSize \in {0, 1} }

InitShutdown ==
    /\ Idle
    /\ \E n \in ShutdownSizes :
          /\ disk = [i \in 1..(MaxInode + 1) |->
                        IF i = 1 THEN [j \in 1..n |-> ValidLine(j)] ELSE <<>>]
          /\ nlines = n
    /\ pt = [NewPygtail EXCEPT !.fh = 1]
    /\ line = NoLine
    /\ pc = "read"
    /\ force = TRUE
    /\ TO_SEND = <<>>
    /\ emitted = <<>>

NextShutdown == NextDrain \/ Signal

SpecShutdown == InitShutdown /\ [][NextShutdown]_vars /\ WF_vars(NextDrain)

----------------------------------------------------------------------------
(* Properties of commit() *)

\* the bulk calls made since the current process()/commit() call was entered
CallsSinceEntry == SubSeq(calls, entry.ncalls + 1, Len(calls))

\* ceil(n / 500)
CeilDiv500(n) == IF n % 500 = 0 THEN n \div 500 ELSE (n \div 500) + 1

\* C1: commit(force=true) on a buffer of n >= 1 operations makes exactly
\* ceil(n/500) bulk calls, the k-th carrying operations 500(k-1)+1 .. 500k of
\* the buffer in their order (the last one stopping at n), and leaves the
\* buffer empty.
C1_ForceFlushChunks ==
    (last = "commit" /\ force /\ Len(entry.buf) >= 1) =>
        LET n == Len(entry.buf)
            m == CeilDiv500(n)
        IN  /\ ret = TRUE
            /\ Len(CallsSinceEntry) = m
            /\ \A k \in 1..m :
                   /\ CallsSinceEntry[k].chunk =
                        [j \in 1..(IF k < m THEN 500 ELSE n - 500 * (m - 1)) |->
                            entry.buf[500 * (k - 1) + j]]
                   /\ k < m => Len(CallsSinceEntry[k].chunk) = 500
            /\ TO_SEND = <<>>

\* a forced commit of MaxBuf operations has returned
C1_Witness ==
    /\ last = "commit" /\ force /\ ret = TRUE
    /\ Len(entry.buf) = MaxBuf
    /\ Len(CallsSinceEntry) >= 3

\* C2: commit returns false without a bulk call and without touching the
\* buffer exactly when the buffer is empty or force is false and the buffer
\* holds fewer than 500 operations; otherwise it makes bulk calls, empties
\* the buffer and returns true. Unforced, 499 operations give no call and 500
\* give exactly one.
C2_NoOpExactly ==
    LET n    == Len(entry.buf)
        noop == n = 0 \/ (~force /\ n < 500)
    IN  /\ last = "commit" =>
             IF noop
               THEN ret = FALSE /\ TO_SEND = entry.buf /\ CallsSinceEntry = <<>>
               ELSE ret = TRUE /\ TO_SEND = <<>> /\ Len(CallsSinceEntry) >= 1
        /\ (last = "commit" /\ ~force /\ n = 500) => Len(CallsSinceEntry) = 1
        /\ pc = "bulk" => ~(Len(TO_SEND) = 0 \/ (~force /\ Len(TO_SEND) < 500))

\* an unforced commit of 499 operations has returned false
C2_Witness ==
    /\ last = "commit" /\ ~force /\ ret = FALSE
    /\ Len(entry.buf) = 499 /\ Len(TO_SEND) = 499 /\ calls = <<>>

----------------------------------------------------------------------------
(* Properties of a drain pass *)

\* C3: a drain pass that starts with an empty buffer and reads n valid lines
\* makes floor(n/500) bulk calls of exactly 500 operations from the unforced
\* commits of the drain, then one call of n mod 500 operations from the
\* forced commit when that remainder is not zero, and ends with an empty
\* buffer; 601 lines give two calls, of 500 and of 101 operations.
C3_DrainPassCalls ==
    LET n == nlines
        q == n \div 500
        r == n % 500
    IN  /\ pc = "sleep" =>
             /\ Len(yielded) = n
             /\ Len(calls) = q + (IF r > 0 THEN 1 ELSE 0)
             /\ \A k \in 1..q :
                    Len(calls[k].chunk) = 500 /\ ~calls[k].forced
             /\ r > 0 => Len(calls[q + 1].chunk) = r /\ calls[q + 1].forced
             /\ TO_SEND = <<>>
        /\ (pc = "sleep" /\ n = 601) =>
             /\ Len(calls) = 2
             /\ Len(calls[1].chunk) = 500
             /\ Len(calls[2].chunk) = 101

\* a drain pass over 601 lines has ended
C3_Witness ==
    /\ pc = "sleep" /\ nlines = 601 /\ Len(yielded) = 601
    /\ Len(calls) = 2 /\ TO_SEND = <<>>

\* the ids of the documents a sequence of operations carries
OpIds(ops) == { ops[i]._source.id : i \in 1..Len(ops) }

\* call k reported that some items of its chunk failed
PartialFailure(k) == calls[k].ok < Len(calls[k].chunk)

\* no item of a chunk that reported failures is in the buffer once the commit
\* is over, nor in the chunk of a later call; and the commit that saw the
\* failure returned true with every chunk submitted and the buffer cleared
C4_FailedItemsDropped ==
    /\ pc \notin {"bulk", "crashed"} =>
          \A k \in 1..Len(calls) :
              PartialFailure(k) => OpIds(calls[k].chunk) \cap OpIds(TO_SEND) = {}
    /\ \A k \in 1..Len(calls) :
          PartialFailure(k) =>
              \A j \in (k + 1)..Len(calls) :
                  OpIds(calls[k].chunk) \cap OpIds(calls[j].chunk) = {}
    /\ (last = "commit" /\ \E k \in (entry.ncalls + 1)..Len(calls) : PartialFailure(k)) =>
          /\ ret = TRUE
          /\ TO_SEND = <<>>
          /\ Len(CallsSinceEntry) = CeilDiv500(Len(entry.buf))

\* a bulk call that reports failed items raises nothing: the loop over the
\* chunks goes on with the next chunk and the buffer as it was
C4_FailureDoesNotRaise ==
    (/\ Len(calls') = Len(calls) + 1
     /\ calls'[Len(calls')].ok < Len(calls'[Len(calls')].chunk)) =>
        /\ pc' = "bulk"
        /\ ci' = ci + 1
        /\ TO_SEND' = TO_SEND

\* C4: when the backend reports failed items for a chunk, commit raises
\* nothing, still submits every later chunk, clears the whole buffer and
\* returns true; a failed item is never kept in the buffer and never
\* submitted again by a later commit.
C4_PartialFailure == [](C4_FailedItemsDropped) /\ [][C4_FailureDoesNotRaise]_vars

\* after a commit whose first chunk reported failures and that went on to
\* submit two more chunks, a later commit has submitted a line read since
C4_Witness ==
    /\ Len(calls) >= 4
    /\ PartialFailure(1)
    /\ calls[1].forced /\ calls[2].forced /\ calls[3].forced
    /\ last = "commit" /\ ret = TRUE /\ TO_SEND = <<>>
    /\ entry.ncalls = 3

----------------------------------------------------------------------------
(* Properties of process() *)

\* the line is rejected before the index is computed: None, empty or blank,
\* not JSON, or JSON that is not an object
RejectedByDecode(l) == l.kind \in {None, "blank", "badjson", "nonobject"}

\* the line decodes to an object for which the transform returns nothing or
\* something that is not an object
RejectedByTransform(l) == l.kind = "object" /\ l.tr \in {"none", "nondict"}

----------------------------------------------------------------------------
(* Properties of the tail cursor *)

\* a step that is one call of pt.next() by the run loop
ReadStep == pc = "read" /\ pc' # "read"

\* the cursor has read its handle to the end and the path now names another
\* file, smaller than the offset the cursor has reached
RotatedBehindCursor ==
    /\ pt.fh # 0 /\ path # 0 /\ path # pt.fh
    /\ pt.pos = Len(disk[pt.fh])
    /\ Len(disk[path]) < pt.pos

\* the file the cursor has open was truncated below the offset it has reached
TruncatedBehindCursor ==
    /\ pt.fh # 0 /\ path = pt.fh
    /\ Len(disk[path]) < pt.pos

\* the read switches to the file the path names and starts at its first line
ResumesAtBeginning ==
    /\ pt'.fh = path
    /\ IF Len(disk[path]) > 0
         THEN pc' = "process" /\ line' = disk[path][1] /\ pt'.pos = 1
         ELSE pt'.pos = 0

\* C5: after the watched file is replaced by a new file at the same path (new
\* inode, smaller than the offset already read), the next read resumes from
\* the beginning of the new file, so that every line of the new file is
\* yielded.
C5_RotationResumesAtBeginning ==
    [][(ReadStep /\ RotatedBehindCursor) => ResumesAtBeginning]_vars

\* C6: after the file the cursor reads shrinks below the offset already read
\* (same inode), the next read resumes from the beginning of the file, so
\* that the lines written after the truncation are yielded.
C6_TruncationResumesAtBeginning ==
    [][(ReadStep /\ TruncatedBehindCursor) => ResumesAtBeginning]_vars

\* C7: the offset is never persisted and no line that was in the file when
\* the daemon started (first start or restart) is handed to process() or
\* submitted to the backend.
C7_StartsAtEndOfFile ==
    /\ offset_file = NoFile
    /\ \A i \in 1..Len(yielded) : yielded[i] \notin startLines
    /\ pc = "process" => line.id \notin startLines
    /\ OpIds(TO_SEND) \cap startLines = {}
    /\ \A k \in 1..Len(calls) : OpIds(calls[k].chunk) \cap startLines = {}

\* a restarted daemon that found lines in the file has submitted a line
\* written after its restart
C7_Witness ==
    /\ restarts >= 1
    /\ startLines # {}
    /\ Len(yielded) >= 1
    /\ Len(calls) >= 1

\* C8 as stated: the offset never decreases while the inode of the open file
\* stays the same, and a change of inode resets it.
C8_OffsetMonotonicPerInode ==
    [][(pt.fh # 0 /\ pt'.fh # 0) =>
          IF pt'.fh = pt.fh
            THEN pt'.pos >= pt.pos
            ELSE pt'.pos = Len(disk[pt'.fh])]_vars

\* C8 amended: while the inode of the open file stays the same the offset
\* never decreases, except that a read which finds the file truncated below
\* the offset resets the offset to the current size of the file; a change of
\* inode resets the offset to the current size of the new file.
C8_OffsetMonotonicUnlessTruncated ==
    [][(pt.fh # 0 /\ pt'.fh # 0) =>
          IF pt'.fh = pt.fh
            THEN \/ pt'.pos >= pt.pos
                 \/ /\ ReadStep
                    /\ TruncatedBehindCursor
                    /\ pt'.pos = Len(disk[pt.fh])
            ELSE ReadStep /\ pt'.pos = Len(disk[pt'.fh])]_vars

\* the first run has yielded a line of the first file and its offset in that
\* file is now below the number of lines it yielded: a truncation reset it
C8_Witness ==
    /\ restarts = 0
    /\ pt.fh = 1
    /\ Len(yielded) >= 1
    /\ pt.pos < Len(yielded)

----------------------------------------------------------------------------
(* Properties of failures *)

\* C11: process never raises: for every line the cursor can yield, whatever
\* the decoded object holds under "@timestamp", process returns true or
\* false, so that no input line stops the run loop.
C11_ProcessNeverRaises ==
    /\ raised # "ProcessError"
    /\ pc # "process" => last \in {"process", "commit"}

\* C12: a transport failure raised by a bulk call is caught nowhere: the
\* commit does not return and does not clear the buffer, the chunks that were
\* left are not submitted, and the process makes no later read, commit,
\* bulk call or sleep.
C12_TransportFailureStops ==
    /\ [](raised = "TransportError" =>
            /\ pc = "crashed"
            /\ last = "none"
            /\ TO_SEND = entry.buf
            /\ Len(CallsSinceEntry) = ci
            /\ ci < CeilDiv500(Len(entry.buf)))
    /\ [][raised = "TransportError" =>
            /\ raised' = "none"
              \/ UNCHANGED <<pc, calls, TO_SEND, pt, ci, last, ret, yielded>>]_vars

\* the second bulk call of a forced commit of three chunks has raised
C12_Witness ==
    /\ raised = "TransportError" /\ pc = "crashed"
    /\ force /\ ci = 1 /\ Len(calls) = 1
    /\ CeilDiv500(Len(TO_SEND)) = 3

----------------------------------------------------------------------------
(* Properties of the shutdown *)

\* C13: once the termination signal has been received the run loop finishes
\* the drain-and-flush cycle it is in, forced commit included, starts no
\* further iteration of the outer loop, and eventually exits (the drain
\* reaching the end of the stream and every bulk call returning).
C13_CooperativeShutdown ==
    /\ (~RUNNING) ~> (pc = "exited")
    /\ [][(~RUNNING /\ pc = "loop") => pc' \in {"loop", "exited"}]_vars
    /\ [][(pc # "exited" /\ pc' = "exited") =>
            /\ pc = "loop" /\ ~RUNNING
            /\ last = "commit" /\ force
            /\ Len(yielded) = nlines
            /\ Len(emitted) = nlines
            /\ TO_SEND = <<>>]_vars

\* the daemon has exited after a signal, its last cycle having submitted the
\* lines it read
C13_Witness ==
    /\ pc = "exited" /\ ~RUNNING
    /\ nlines = 501 /\ Len(calls) = 2
    /\ calls[2].forced

----------------------------------------------------------------------------
(* C14: timestamp bucketing *)

\* days from 0001-01-01 to the date y-mo-d, counted without the calendar
\* steps default_index_func takes
Ordinal(y, mo, d) ==
    LET before == <<0, 31, 59, 90, 120, 151, 181, 212, 243, 273, 304, 334>>
        leap   == (y % 4 = 0 /\ y % 100 # 0) \/ y % 400 = 0
    IN 365 * (y - 1) + ((y - 1) \div 4) - ((y - 1) \div 100)
         + ((y - 1) \div 400) + before[mo] + (IF leap /\ mo > 2 THEN 1 ELSE 0)
         + (d - 1)

\* the UTC calendar date of the instant an aware datetime denotes
UtcDate(s) ==
    LET instant == Ordinal(s.y, s.mo, s.d) * 24 * 60 + s.h * 60 + s.mi - s.off
    IN CHOOSE c \in ((s.y - 1)..(s.y + 1)) \X (1..12) \X (1..31) :
         /\ Ordinal(c[1], c[2], c[3]) = instant \div (24 * 60)
         /\ Ordinal(c[1], c[2], c[3]) <
              (IF c[2] = 12 THEN Ordinal(c[1] + 1, 1, 1)
                            ELSE Ordinal(c[1], c[2] + 1, 1))

DateIndex(c) ==
    <<"logs-">> \o Digits(c[1], 4) \o <<".">> \o Digits(c[2], 2)
       \o <<".">> \o Digits(c[3], 2)

\* C14: with the default index function a document whose "@timestamp" has a
\* UTC offset goes to the index of the template formatted with the UTC date
\* of that instant (wall clock minus offset): 2023-01-01T23:30+02:00 goes to
\* logs-2023.01.01, 2023-01-01T01:00+02:00 to logs-2022.12.31; a document
\* without "@timestamp" goes to the index of the current UTC time
C14_TimestampBucketing ==
    emitted # <<>> =>
      /\ line.ts = "aware" =>
           /\ emitted[1]._index = DateIndex(UtcDate(line.at))
           /\ line.at = datetime(2023, 1, 1, 23, 30, 120) =>
                emitted[1]._index =
                  <<"logs-", "2", "0", "2", "3", ".", "0", "1", ".", "0", "1">>
           /\ line.at = datetime(2023, 1, 1, 1, 0, 120) =>
                emitted[1]._index =
                  <<"logs-", "2", "0", "2", "2", ".", "1", "2", ".", "3", "1">>
           /\ line.at = datetime(2024, 2, 29, 23, 30, 0 - 90) =>
                emitted[1]._index =
                  <<"logs-", "2", "0", "2", "4", ".", "0", "3", ".", "0", "1">>
      /\ line.ts = "absent" =>
           emitted[1]._index = DateIndex(<<utcnow.y, utcnow.mo, utcnow.d>>)

\* a timestamp whose local date (1 January 2023) is not its UTC date was
\* processed and its operation emitted
C14_Witness ==
    /\ last = "process" /\ ret
    /\ line.ts = "aware"
    /\ line.at = datetime(2023, 1, 1, 1, 0, 120)
    /\ Len(TO_SEND) = 1
    /\ TO_SEND[1]._index = DateIndex(<<2022, 12, 31>>)

----------------------------------------------------------------------------
(* C15: the buffer is empty while the run loop sleeps and when it exits *)

\* the ids of the operations submitted by the bulk calls made so far
SubmittedIds == UNION { OpIds(calls[k].chunk) : k \in 1..Len(calls) }

\* C15: whenever the run loop is in its idle sleep, and when it has exited
\* after a termination signal, TO_SEND is empty and every operation emitted
\* since the process started has been submitted by a bulk call
C15_BufferEmptyWhenIdle ==
    pc \in {"sleep", "exited"} =>
        /\ TO_SEND = <<>>
        /\ OpIds(emitted) \subseteq SubmittedIds
        /\ pc = "exited" => ~RUNNING

\* the run loop exited on a signal after a drain pass that emitted two
\* operations, which the forced commit submitted
C15_Witness ==
    /\ pc = "exited" /\ ~RUNNING
    /\ Len(emitted) = 2
    /\ Len(calls) = 1 /\ calls[1].forced
    /\ Len(calls[1].chunk) = 2

----------------------------------------------------------------------------
(* C16: the buffer of the run loop never exceeds 500 operations *)

\* C16: in the run loop TO_SEND never holds more than 500 operations and
\* holds fewer than 500 whenever the loop goes back to read a line; every
\* bulk call carries at most 500 operations and every call made by an
\* unforced commit carries exactly 500
C16_BufferBounded ==
    /\ Len(TO_SEND) <= 500
    /\ pc = "read" => Len(TO_SEND) < 500
    /\ \A k \in 1..Len(calls) :
          /\ Len(calls[k].chunk) <= 500
          /\ ~calls[k].forced => Len(calls[k].chunk) = 500

\* a burst of more than 500 lines was drained: one call mid-drain, then the
\* forced commit with the remainder
C16_Witness ==
    /\ pc = "sleep"
    /\ nlines > 500
    /\ Len(calls) = 2
    /\ ~calls[1].forced /\ calls[2].forced
    /\ Len(calls[2].chunk) = nlines - 500

----------------------------------------------------------------------------
(* C17: every operation is submitted exactly once, in emission order *)

\* the chunks of bulk calls 1..k, concatenated
RECURSIVE Submitted(_)
Submitted(k) ==
    IF k = 0 THEN <<>> ELSE Submitted(k - 1) \o calls[k].chunk

\* the operations of TO_SEND no bulk call has been handed yet
Unsubmitted ==
    IF pc = "bulk" THEN SubSeq(TO_SEND, ci * 500 + 1, Len(TO_SEND))
                   ELSE TO_SEND

\* C17: while no bulk call has raised, the chunks submitted so far,
\* concatenated, followed by the operations still waiting in TO_SEND, are
\* exactly the operations emitted, in emission order; no operation is in two
\* calls; and once the forced commit has returned, all of them were submitted
C17_SubmittedExactlyOnce ==
    raised = "none" =>
        LET sub == Submitted(Len(calls)) IN
          /\ sub \o Unsubmitted = emitted
          /\ Cardinality(OpIds(sub)) = Len(sub)
          /\ pc \in {"sleep", "loop"} => sub = emitted

\* a buffer of more than 1000 operations was flushed in three calls, then
\* two more lines were processed and flushed by the next forced commit
C17_Witness ==
    /\ raised = "none"
    /\ pc = "sleep"
    /\ Len(calls) = 4
    /\ Len(emitted) > 2 * 500 + MaxPending
    /\ Len(calls[4].chunk) = MaxPending

----------------------------------------------------------------------------
(* C18: a rotation with unread lines left in the old file *)

\* the path names another file than the one the cursor has open, and the
\* open one has lines the cursor has not read
UnreadInOldHandle ==
    /\ pt.fh # 0 /\ path # 0 /\ path # pt.fh
    /\ pt.pos < Len(disk[pt.fh])

\* the file that holds the line with this id, 0 when a truncation removed it
FileOf(id) ==
    IF \E f \in 1..(MaxInode + 1) : id \in Ids(disk[f])
      THEN CHOOSE f \in 1..(MaxInode + 1) : id \in Ids(disk[f])
      ELSE 0

\* C18: when the path was replaced while the old handle has unread lines, a
\* read does not switch files: it yields the next line of the old file; the
\* cursor leaves a replaced file only when its position equals the size of
\* that file; and the lines of an older file are yielded before those of a
\* newer one
C18_OldFileReadToEnd ==
    /\ [][(ReadStep /\ UnreadInOldHandle) =>
             /\ pt'.fh = pt.fh
             /\ pt'.pos = pt.pos + 1
             /\ pc' = "process"
             /\ line' = disk[pt.fh][pt.pos + 1]
             /\ yielded' = Append(yielded, line'.id)]_vars
    /\ [][(ReadStep /\ pt.fh # 0 /\ path # pt.fh /\ pt'.fh # pt.fh) =>
             pt.pos = Len(disk[pt.fh])]_vars
    /\ [](\A i, j \in 1..Len(yielded) :
             (i < j /\ FileOf(yielded[i]) # 0 /\ FileOf(yielded[j]) # 0)
                => FileOf(yielded[i]) <= FileOf(yielded[j]))

\* the cursor has just yielded the last line of a file that was rotated
\* away, while the new file at the path already holds a line
C18_Witness ==
    /\ pt.fh # 0 /\ path # 0 /\ path # pt.fh
    /\ pc = "process" /\ last = "next"
    /\ pt.pos = Len(disk[pt.fh])
    /\ line = disk[pt.fh][pt.pos]
    /\ Len(disk[path]) > 0

----------------------------------------------------------------------------
(* C19: what process() appends when it returns true *)

\* the index the default index function gives the document decoded from
\* line l, before any transform
IndexOfLine(l) ==
    IF l.ts = "aware" THEN DateIndex(UtcDate(l.at))
                      ELSE DateIndex(<<utcnow.y, utcnow.mo, utcnow.d>>)

\* C19: when process returns true the buffer is the buffer at entry with one
\* operation appended: an index operation whose index is the one the index
\* function gives the decoded document as it was before the transform, and
\* whose body is what the transform returned; no bulk call was made
C19_ProcessAppendsOne ==
    (last = "process" /\ ret) =>
        LET n  == Len(entry.buf)
            op == TO_SEND[n + 1]
        IN /\ Len(TO_SEND) = n + 1
           /\ SubSeq(TO_SEND, 1, n) = entry.buf
           /\ op._op_type = "index"
           /\ op._index = IndexOfLine(line)
           /\ op._source.id = line.id
           /\ op._source.modified = (line.tr = "modify")
           /\ op._source.ts = (IF line.tr = "modify" THEN "absent" ELSE line.ts)
           /\ line.tr \in {"identity", "modify"}
           /\ calls = <<>>

\* process() returned true for a line with a "@timestamp" that the transform
\* removes, with MaxPending operations already in the buffer
C19_Witness ==
    /\ last = "process" /\ ret
    /\ line.ts = "aware" /\ line.tr = "modify"
    /\ Len(TO_SEND) = MaxPending + 1
    /\ TO_SEND[MaxPending + 1]._source.ts = "absent"
    /\ TO_SEND[MaxPending + 1]._index = DateIndex(<<2023, 1, 1>>)

----------------------------------------------------------------------------
(* C20: the signal handler only clears RUNNING *)

====
